---- MODULE Spec2Model ----
(***************************************************************************)
(* Model of the hybrid-social-media-app scaffold.                          *)
(*                                                                         *)
(* The repository holds the domain record declarations of src/types        *)
(* (interfaces User, Post, Comment, Message, Conversation, Notification,   *)
(* ApiResponse, PaginatedResponse, SearchFilters, ...) and the starter App  *)
(* component with its click counter.  The declarations are the only code   *)
(* that says which record values are admitted: an interface is modelled as *)
(* the set of values the TypeScript checker assigns to it, and a behaviour *)
(* of the model binds one value of one declared type (Bind) while the App  *)
(* counter is clicked.  A click queues a state update; the next render     *)
(* applies the queued updates in order, as useState does.                  *)
(*                                                                         *)
(* string, number and T[] are sampled: a few opaque strings per field, the *)
(* integers of Number, arrays of bounded length.  A record carries the     *)
(* fields that the data-model invariants relate; free-text, timestamp and  *)
(* flag fields that nothing relates to another field are left out.  An     *)
(* optional property (p?: T) is a property the record may lack: the record *)
(* values with and without the field are both in the type.                 *)
(***************************************************************************)
EXTENDS Integers, Sequences, FiniteSets, TLC

VARIABLES kind, value, count, queue, clicks

vars == <<kind, value, count, queue, clicks>>

\* the App component: the count of the last render, the state updates queued
\* since, and the clicks handled so far
app == <<count, queue, clicks>>

\* ------------------------------------------------------------------ bounds

\* longest array of ids (followers, following, likes)
MaxList == 2

\* longest array of records (comments of a post, a collection of users or posts)
MaxRecords == 2

\* longest participants array
MaxParticipants == 3

\* clicks followed
MaxClicks == 2

\* ------------------------------------------------------- primitive samples

\* string, as used for user ids, post ids, comment ids, message ids
UserIds == {"u1", "u2"}

PostIds == {"p1", "p2"}

CommentIds == {"c1", "c2"}

MessageIds == {"m1"}

Usernames == {"ann", "bob"}

Texts == {"", "cats"}

\* number (integers only: TLC has no fractions, NaN or infinities)
Number == {-1, 0, 1, 5, 6, 20, 95}

\* T[] up to length n
ArrayOf(T, n) == UNION {[1..k -> T] : k \in 0..n}

\* R extended with the optional property f?: T
Optional(R, f, T) == R \cup {r @@ (f :> t) : r \in R, t \in T}

\* ------------------------------------------------------------ declarations

User ==
    [id: UserIds, username: Usernames,
     followers: ArrayOf(UserIds, MaxList), following: ArrayOf(UserIds, MaxList)]

Comment ==
    Optional([id: CommentIds, postId: PostIds], "parentId", CommentIds)

\* Post values embedding at most n comments
PostOf(n) ==
    [id: PostIds, likes: ArrayOf(UserIds, MaxList),
     comments: ArrayOf(Comment, n), shares: Number]

Post == PostOf(MaxRecords)

\* the union widened by a tag the declaration does not list
MessageTypeWidened == {"text", "image", "file", "video"}

MessageType == {"text", "image", "file"}

Message ==
    [senderId: UserIds, receiverId: UserIds, type: MessageType, isRead: BOOLEAN]

Conversation ==
    Optional([participants: ArrayOf(UserIds, MaxParticipants), isGroup: BOOLEAN],
             "lastMessage", Message)

NotificationType == {"like", "comment", "follow", "mention", "message"}

Notification ==
    Optional(Optional(
        [userId: UserIds, type: NotificationType, fromUserId: UserIds,
         isRead: BOOLEAN],
        "postId", PostIds), "messageId", MessageIds)

ApiResponse(T) ==
    Optional(Optional(Optional(
        [success: BOOLEAN], "data", T), "error", {"failed"}), "message", {"done"})

PaginatedResponse(T) ==
    [data: ArrayOf(T, MaxRecords),
     pagination: [page: Number, limit: Number, total: Number, totalPages: Number]]

SearchType == {"users", "posts", "all"}

SearchSortBy == {"recent", "popular", "relevance"}

SearchFilters == [query: Texts, type: SearchType, sortBy: SearchSortBy]

\* null, a value of no record type
null == [null |-> TRUE]

AppState == [user: User \cup {null}, isAuthenticated: BOOLEAN, isLoading: BOOLEAN]

\* the data properties of AuthContextType (its methods hold no state)
AuthContextType == [user: User \cup {null}, isAuthenticated: BOOLEAN]

\* -------------------------------------------------------------- operations

Init ==
    /\ kind = "none"
    /\ value = <<>>
    /\ count = 0
    /\ queue = <<>>
    /\ clicks = 0

\* Bind<T>: a value v is bound at the declared type T (const value: T = v).
\* A behaviour follows one value: nothing is bound before (kind = "none").

BindUser ==
    /\ kind = "none"
    /\ \E v \in User : kind' = "User" /\ value' = v
    /\ UNCHANGED app

BindUsers ==
    /\ kind = "none"
    /\ \E v \in ArrayOf(User, MaxRecords) : kind' = "User[]" /\ value' = v
    /\ UNCHANGED app

BindPost ==
    /\ kind = "none"
    /\ \E v \in Post : kind' = "Post" /\ value' = v
    /\ UNCHANGED app

\* a collection of posts; its posts embed no comments (BindPost covers those)
BindPosts ==
    /\ kind = "none"
    /\ \E v \in ArrayOf(PostOf(0), MaxRecords) : kind' = "Post[]" /\ value' = v
    /\ UNCHANGED app

BindComment ==
    /\ kind = "none"
    /\ \E v \in Comment : kind' = "Comment" /\ value' = v
    /\ UNCHANGED app

BindMessage ==
    /\ kind = "none"
    /\ \E v \in Message : kind' = "Message" /\ value' = v
    /\ UNCHANGED app

BindConversation ==
    /\ kind = "none"
    /\ \E v \in Conversation : kind' = "Conversation" /\ value' = v
    /\ UNCHANGED app

BindNotification ==
    /\ kind = "none"
    /\ \E v \in Notification : kind' = "Notification" /\ value' = v
    /\ UNCHANGED app

BindApiResponse ==
    /\ kind = "none"
    /\ \E v \in ApiResponse(User) : kind' = "ApiResponse" /\ value' = v
    /\ UNCHANGED app

BindPaginatedResponse ==
    /\ kind = "none"
    /\ \E v \in PaginatedResponse(UserIds) : kind' = "PaginatedResponse" /\ value' = v
    /\ UNCHANGED app

BindSearchFilters ==
    /\ kind = "none"
    /\ \E v \in SearchFilters : kind' = "SearchFilters" /\ value' = v
    /\ UNCHANGED app

BindAppState ==
    /\ kind = "none"
    /\ \E v \in AppState : kind' = "AppState" /\ value' = v
    /\ UNCHANGED app

BindAuthContextType ==
    /\ kind = "none"
    /\ \E v \in AuthContextType : kind' = "AuthContextType" /\ value' = v
    /\ UNCHANGED app

\* a state update that sets the value c + 1 computed from the rendered count c
StaleUpdate(c) == [functional |-> FALSE, next |-> c + 1]

\* the update the button's handler passes to setCount: (count) => count + 1.
\* c is the count of the render the handler closes over; the updater does not
\* read it.
Updater(c) == [functional |-> TRUE, next |-> 0]

\* the state an update u yields from the previous state prev
Apply(u, prev) == IF u.functional THEN prev + 1 ELSE u.next

\* the state after the queued updates q are applied in order to state c
RECURSIVE Reduce(_, _)
Reduce(q, c) == IF q = <<>> THEN c ELSE Reduce(Tail(q), Apply(Head(q), c))

\* onClick: setCount((count) => count + 1) queues the update
setCount ==
    /\ clicks < MaxClicks
    /\ queue' = Append(queue, Updater(count))
    /\ clicks' = clicks + 1
    /\ UNCHANGED <<kind, value, count>>

\* re-render: useState returns the state with the queued updates applied
App ==
    /\ queue # <<>>
    /\ count' = Reduce(queue, count)
    /\ queue' = <<>>
    /\ UNCHANGED <<kind, value, clicks>>

Next ==
    \/ BindUser
    \/ BindUsers
    \/ BindPost
    \/ BindPosts
    \/ BindComment
    \/ BindMessage
    \/ BindConversation
    \/ BindNotification
    \/ BindApiResponse
    \/ BindPaginatedResponse
    \/ BindSearchFilters
    \/ BindAppState
    \/ BindAuthContextType
    \/ setCount
    \/ App

Spec == Init /\ [][Next]_vars

\* the records that carry a tag field
NextTags ==
    \/ BindMessage
    \/ BindConversation
    \/ BindNotification
    \/ BindSearchFilters

SpecTags == Init /\ [][NextTags]_vars

\* the App component beside the records that carry a tag field
NextApp ==
    \/ setCount
    \/ App
    \/ NextTags

SpecApp == Init /\ [][NextApp]_vars

\* -------------------------------------------------------------- properties

\* the property f is present in record r
Has(r, f) == f \in DOMAIN r

\* the elements of array a
Elems(a) == {a[i] : i \in DOMAIN a}

\* ceil(a / b) for b > 0 (\div rounds down)
Ceil(a, b) == -((-a) \div b)

\* C1: for every PaginatedResponse value with pagination.limit > 0,
\* pagination.totalPages equals ceil(pagination.total / pagination.limit)
\* (total=95, limit=20 gives totalPages=5).
C1_TotalPagesIsCeil ==
    (kind = "PaginatedResponse" /\ value.pagination.limit > 0)
        => value.pagination.totalPages
             = Ceil(value.pagination.total, value.pagination.limit)

\* C2: for every PaginatedResponse value, 0 <= pagination.page <= totalPages.
C2_PageWithinRange ==
    kind = "PaginatedResponse"
        => /\ 0 <= value.pagination.page
           /\ value.pagination.page <= value.pagination.totalPages

\* C3: for every Conversation the participants list is non-empty; a
\* conversation that is not a group has exactly 2 participants and a group
\* has at least 2.
C3_ParticipantCount ==
    kind = "Conversation"
        => /\ Len(value.participants) > 0
           /\ ~value.isGroup => Len(value.participants) = 2
           /\ value.isGroup => Len(value.participants) >= 2

\* the comments of cs that c.parentId names
ParentsOf(cs, c) ==
    IF Has(c, "parentId") THEN {d \in Elems(cs) : d.id = c.parentId} ELSE {}

\* following parentId links from c ends within n steps.  A parentId that
\* names no comment of cs ends the walk too: only a chain that keeps going
\* counts against the claim.
RECURSIVE EndsWithin(_, _, _)
EndsWithin(cs, c, n) ==
    \/ ParentsOf(cs, c) = {}
    \/ /\ n > 0
       /\ \A d \in ParentsOf(cs, c) : EndsWithin(cs, d, n - 1)

\* the comments reached from c by 1..n parentId links
RECURSIVE Ancestors(_, _, _)
Ancestors(cs, c, n) ==
    IF n = 0 THEN {}
    ELSE ParentsOf(cs, c)
           \cup UNION {Ancestors(cs, d, n - 1) : d \in ParentsOf(cs, c)}

\* C4: for every comment of a post, following parentId links ends after at
\* most N steps, N the number of comments of the post, and no comment is its
\* own ancestor.
C4_ParentChainEnds ==
    kind = "Post"
        => \A c \in Elems(value.comments) :
              /\ EndsWithin(value.comments, c, Len(value.comments))
              /\ c \notin Ancestors(value.comments, c, Len(value.comments))

\* C5: every Message has senderId # receiverId and every Notification has
\* userId # fromUserId.
C5_DistinctParties ==
    /\ kind = "Message" => value.senderId # value.receiverId
    /\ kind = "Notification" => value.userId # value.fromUserId

\* C6: every Post has shares >= 0.
C6_SharesNonNegative ==
    /\ kind = "Post" => value.shares >= 0
    /\ kind = "Post[]" => \A p \in Elems(value) : p.shares >= 0

\* C7: in every ApiResponse exactly one of data and error is present.
C7_DataXorError ==
    kind = "ApiResponse" => (Has(value, "data") <=> ~Has(value, "error"))

\* C8: the tag fields are closed sets: Message.type is text, image or file;
\* Notification.type is like, comment, follow, mention or message;
\* SearchFilters.type is users, posts or all and SearchFilters.sortBy is
\* recent, popular or relevance; no other value is a record's tag.
C8_TagSetsClosed ==
    /\ kind = "Message" => value.type \in {"text", "image", "file"}
    /\ (kind = "Conversation" /\ Has(value, "lastMessage"))
          => value.lastMessage.type \in {"text", "image", "file"}
    /\ kind = "Notification"
          => value.type \in {"like", "comment", "follow", "mention", "message"}
    /\ kind = "SearchFilters"
          => /\ value.type \in {"users", "posts", "all"}
             /\ value.sortBy \in {"recent", "popular", "relevance"}

\* a Message tagged file is bound
C8_Witness == kind = "Message" /\ value.type = "file"

\* C9: a User's own id is neither in its followers nor in its following.
C9_NotOwnFollower ==
    kind = "User"
        => /\ value.id \notin Elems(value.followers)
           /\ value.id \notin Elems(value.following)

\* C10: in a collection of User records no two different records share an
\* id or a username, and in a collection of Post records no two different
\* records share an id.
C10_UniqueKeys ==
    /\ kind = "User[]"
          => \A i, j \in DOMAIN value :
                value[i] # value[j]
                   => /\ value[i].id # value[j].id
                      /\ value[i].username # value[j].username
    /\ kind = "Post[]"
          => \A i, j \in DOMAIN value :
                value[i] # value[j] => value[i].id # value[j].id

\* C11: the likes list of every Post holds no user id twice.
C11_LikesUnique ==
    /\ kind = "Post"
          => \A i, j \in DOMAIN value.likes :
                i # j => value.likes[i] # value.likes[j]
    /\ kind = "Post[]"
          => \A p \in Elems(value) :
                \A i, j \in DOMAIN p.likes : i # j => p.likes[i] # p.likes[j]

\* C12: a comment's parentId, when present, is the id of a different comment
\* of the same post (one with the same postId).
C12_ParentOnSamePost ==
    kind = "Post"
        => \A c \in Elems(value.comments) :
              Has(c, "parentId")
                 => \E d \in Elems(value.comments) :
                       /\ d # c
                       /\ d.id = c.parentId
                       /\ d.postId = c.postId

\* the count React holds: the rendered count with the queued updates applied
Current == Reduce(queue, count)

\* C14: count starts at 0; after n clicks count equals n, also when several
\* clicks are handled before a re-render; each click raises it by exactly 1,
\* it never decreases, and nothing other than a click changes it.
C14_CountIsClicks ==
    /\ count = 0 /\ queue = <<>>
    /\ [](Current = clicks)
    /\ [](queue = <<>> => count = clicks)
    /\ [][/\ count' >= count
          /\ Current' # Current => (clicks' = clicks + 1 /\ Current' = Current + 1)
          /\ kind' # kind => (count' = count /\ Current' = Current)]_vars

\* two clicks are handled before a re-render
C14_Witness == Len(queue) = 2 /\ clicks = 2 /\ count = 0

\* C15: in every AppState and every AuthContextType, isAuthenticated is true
\* exactly when user is not null.
C15_AuthenticatedIffUser ==
    kind \in {"AppState", "AuthContextType"}
        => (value.isAuthenticated <=> value.user # null)

\* C16: every comment embedded in a Post's comments has that Post's id as
\* its postId.
C16_CommentsOwnedByPost ==
    kind = "Post" => \A c \in Elems(value.comments) : c.postId = value.id

\* C17: across a collection of users, A's id is in B's followers exactly when
\* B's id is in A's following.
C17_FollowSymmetric ==
    kind = "User[]"
        => \A a, b \in Elems(value) :
              a.id \in Elems(b.followers) <=> b.id \in Elems(a.following)

====
